---- MODULE Spec2Model ----
(***************************************************************************)
(* A model of the explainer crate: the declared-type parser and the        *)
(* runtime type-tag mapping (types.rs), the prepared statement and         *)
(* connection wrappers over the SQLite C API (ffi/statement.rs,            *)
(* ffi/connection.rs) and the statement info synthesizer (lib.rs).         *)
(*                                                                         *)
(* Texts are sequences of one-character strings.  Option<T> is a sequence  *)
(* of length at most one: None is << >> and Some(x) is << x >>.            *)
(***************************************************************************)
EXTENDS Integers, Sequences, FiniteSets, TLC

VARIABLES
    \* ---- DataType::from_str under test
    text,                    \* the &str handed to from_str
    variant,                 \* an ASCII case variant of the same text
    parsed,                  \* from_str(text), None before the call
    parsedVariant,           \* from_str(variant), None before the call
    \* ---- ColumnType::from_type_code under test
    type_code,               \* the i32 runtime type tag
    tag_result,              \* from_type_code(type_code), None before the call
    \* ---- Connection::exec and get_statement_info
    pc,                      \* position of the single thread of control
    entry,                   \* which function the caller invoked
    conn,                    \* the native connection handle
    stmt,                    \* the native statement handle
    f,                       \* exec: whether a visitor was given
    cont,                    \* exec: the loop's continue flag
    steps,                   \* exec: number of sqlite3_step calls
    produced,                \* exec: number of rows the statement produced
    last_status,             \* exec: status of the most recent sqlite3_step
    visited,                 \* exec: rows handed to the visitor, in call order
    read_only,               \* get_statement_info: stmt.read_only()
    parameter_count,         \* get_statement_info: stmt.bind_parameter_count()
    column_count,            \* get_statement_info: stmt.column_count()
    has_undecided_datatype,  \* get_statement_info: a lookup returned None
    column_types,            \* get_statement_info: Vec<Option<ColumnType>>
    lookups,                 \* log of the column_database_type calls
    explain_calls,           \* number of explain::explain calls
    explain_column_types,    \* what explain returned, None before the call
    result,                  \* the value the function is about to return
    returned,                \* the value the caller received, None before
    panicked,                \* a panic! was raised
    collected,               \* load_all: the Vec named result
    error                    \* load_all: the Option<E> named error

parseVars == <<text, variant, parsed, parsedVariant>>
tagVars   == <<type_code, tag_result>>
handleVars == <<conn, stmt>>
execVars  == <<f, cont, steps, produced, last_status, visited>>
infoVars  == <<read_only, parameter_count, column_count, has_undecided_datatype,
               column_types, lookups, explain_calls, explain_column_types>>
ctlVars   == <<pc, entry, result, returned, panicked>>
loadVars  == <<collected, error>>
progVars  == <<handleVars, execVars, infoVars, ctlVars, loadVars>>
vars      == <<parseVars, tagVars, progVars>>

-----------------------------------------------------------------------------
(* Bounds of the model *)

\* longest declared-type text under test, in tokens
MaxTokens == 2
\* runtime type tags under test range over -MaxTag .. MaxTag
MaxTag == 30
\* most rows a statement produces
MaxRows == 3
\* most output columns of a statement
MaxCols == 2
\* most bound parameters of a statement
MaxParams == 1

-----------------------------------------------------------------------------
(* Option<T> *)

None == << >>
Some(x) == << x >>
IsSome(o) == Len(o) = 1
IsNone(o) == Len(o) = 0
Unwrap(o) == o[1]

-----------------------------------------------------------------------------
(* Texts *)

Lowers == <<"a","b","c","d","e","f","g","h","i","j","k","l","m",
            "n","o","p","q","r","s","t","u","v","w","x","y","z">>
Uppers == <<"A","B","C","D","E","F","G","H","I","J","K","L","M",
            "N","O","P","Q","R","S","T","U","V","W","X","Y","Z">>

IsUpperChar(c) == \E i \in DOMAIN Uppers : Uppers[i] = c
IsLowerChar(c) == \E i \in DOMAIN Lowers : Lowers[i] = c

\* u8::to_ascii_lowercase
LowerChar(c) ==
    IF IsUpperChar(c) THEN Lowers[CHOOSE i \in DOMAIN Uppers : Uppers[i] = c] ELSE c

\* u8::to_ascii_uppercase (used to build the inputs)
UpperChar(c) ==
    IF IsLowerChar(c) THEN Uppers[CHOOSE i \in DOMAIN Lowers : Lowers[i] = c] ELSE c

\* str::to_ascii_lowercase
ToAsciiLowercase(s) == [i \in DOMAIN s |-> LowerChar(s[i])]

\* str::contains
Contains(s, pat) ==
    \E i \in 1..(Len(s) - Len(pat) + 1) : SubSeq(s, i, i + Len(pat) - 1) = pat

-----------------------------------------------------------------------------
(* types.rs *)

\* enum DataType
DataType == {"Null", "Bool", "Int", "BigInt", "Real", "Text", "Blob"}

\* Option<bool>, the type of ColumnType::nullable
NullableNone == "None"
SomeBool(b) == IF b THEN "Some(true)" ELSE "Some(false)"

\* struct ColumnType
ColumnType(d, n) == [datatype |-> d, nullable |-> n]

\* libsqlite3_sys fundamental datatype codes
SQLITE_INTEGER == 1
SQLITE_FLOAT == 2
SQLITE_TEXT == 3
SQLITE_BLOB == 4
SQLITE_NULL == 5

\* a slip in the match: the float tag read as an integer
FromTypeCodeFloatAsInt(code) ==
    IF code \in {SQLITE_INTEGER, SQLITE_FLOAT} THEN ColumnType("Int", SomeBool(FALSE))
    ELSE IF code = SQLITE_TEXT THEN ColumnType("Text", SomeBool(FALSE))
    ELSE IF code = SQLITE_BLOB THEN ColumnType("Blob", SomeBool(FALSE))
    ELSE ColumnType("Null", SomeBool(TRUE))

\* a variant that leaves nullability undetermined for an unmapped tag
FromTypeCodeUnknownNullable(code) ==
    IF code = SQLITE_INTEGER THEN ColumnType("Int", SomeBool(FALSE))
    ELSE IF code = SQLITE_FLOAT THEN ColumnType("Real", SomeBool(FALSE))
    ELSE IF code = SQLITE_TEXT THEN ColumnType("Text", SomeBool(FALSE))
    ELSE IF code = SQLITE_BLOB THEN ColumnType("Blob", SomeBool(FALSE))
    ELSE ColumnType("Null", NullableNone)

\* the match of from_type_code: Option<DataType>
TypeCodeMatch(code) ==
    IF code = SQLITE_INTEGER THEN Some("Int")
    ELSE IF code = SQLITE_FLOAT THEN Some("Real")
    ELSE IF code = SQLITE_TEXT THEN Some("Text")
    ELSE IF code = SQLITE_BLOB THEN Some("Blob")
    ELSE None

\* ColumnType::from_type_code: match .. .map(..).unwrap_or(..)
FromTypeCode(code) ==
    LET m == TypeCodeMatch(code)
    IN  IF IsSome(m) THEN ColumnType(Unwrap(m), SomeBool(FALSE))
        ELSE ColumnType("Null", SomeBool(TRUE))

\* the patterns of DataType::from_str
P_int4 == <<"i","n","t","4">>
P_int8 == <<"i","n","t","8">>
P_boolean == <<"b","o","o","l","e","a","n">>
P_bool == <<"b","o","o","l">>
P_int == <<"i","n","t">>
P_big == <<"b","i","g">>
P_char == <<"c","h","a","r">>
P_clob == <<"c","l","o","b">>
P_text == <<"t","e","x","t">>
P_blob == <<"b","l","o","b">>
P_real == <<"r","e","a","l">>
P_floa == <<"f","l","o","a">>
P_doub == <<"d","o","u","b">>

\* Result<DataType, anyhow::Error>; the error carries the text of its message
ParseOk(d) == [ok |-> TRUE, datatype |-> d, unknown |-> << >>]
ParseErr(t) == [ok |-> FALSE, datatype |-> "", unknown |-> t]

\* the arms of from_str after the exact matches
SubstringArms(s) ==
    IF Contains(s, P_int)
      THEN ParseOk(IF Contains(s, P_big) THEN "BigInt" ELSE "Int")
    ELSE IF Contains(s, P_char) \/ Contains(s, P_clob) \/ Contains(s, P_text)
      THEN ParseOk("Text")
    ELSE IF Contains(s, P_blob)
      THEN ParseOk("Blob")
    ELSE IF Contains(s, P_real) \/ Contains(s, P_floa) \/ Contains(s, P_doub)
      THEN ParseOk("Real")
    ELSE ParseErr(s)

\* from_str with the generic "int" arm tried before the exact matches
FromStrSubstringFirst(input) ==
    LET s == ToAsciiLowercase(input)
    IN  IF Contains(s, P_int) THEN SubstringArms(s)
        ELSE IF s \in {P_boolean, P_bool} THEN ParseOk("Bool")
        ELSE SubstringArms(s)

\* impl FromStr for DataType: s is shadowed by its lower-cased copy, which is
\* also what the bail! message formats
FromStr(input) ==
    LET s == ToAsciiLowercase(input)
    IN  IF s = P_int4 THEN ParseOk("Int")
        ELSE IF s = P_int8 THEN ParseOk("BigInt")
        ELSE IF s \in {P_boolean, P_bool} THEN ParseOk("Bool")
        ELSE SubstringArms(s)

-----------------------------------------------------------------------------
(* The declared-type texts under test: up to MaxTokens tokens, in three     *)
(* letter cases.                                                           *)

Tokens == {P_int, <<"4">>, <<"8">>, P_big, P_bool, <<"e","a","n">>, P_char, P_clob,
           P_text, P_blob, P_real, P_floa, P_doub, <<"n","u","m">>, <<" ">>}

RECURSIVE TokenTexts(_)
TokenTexts(n) ==
    IF n = 0 THEN {<< >>}
    ELSE LET shorter == TokenTexts(n - 1)
         IN  shorter \cup {t \o tok : t \in shorter, tok \in Tokens}

CaseModes == {"lower", "upper", "mixed"}

ApplyCase(s, mode) ==
    [i \in DOMAIN s |->
        IF mode = "upper" \/ (mode = "mixed" /\ i % 2 = 1) THEN UpperChar(s[i]) ELSE s[i]]

InitParse ==
    /\ \E b \in TokenTexts(MaxTokens) : \E m1, m2 \in CaseModes :
          /\ text = ApplyCase(b, m1)
          /\ variant = ApplyCase(b, m2)
    /\ parsed = None
    /\ parsedVariant = None

\* tests::test_data_type_from_str: "..".parse()
Parse ==
    /\ parsed = None
    /\ parsed' = Some(FromStr(text))
    /\ parsedVariant' = Some(FromStr(variant))
    /\ UNCHANGED <<text, variant>>

InitTag ==
    /\ type_code \in (0 - MaxTag)..MaxTag
    /\ tag_result = None

\* Statement::column_type: the engine's tag for the column, mapped
ColumnTypeOfTag ==
    /\ tag_result = None
    /\ tag_result' = Some(FromTypeCode(type_code))
    /\ UNCHANGED type_code

-----------------------------------------------------------------------------
(* The SQLite C API as the wrappers see it *)

\* libsqlite3_sys result codes
SQLITE_OK == 0
SQLITE_ERROR == 1
SQLITE_BUSY == 5
SQLITE_ROW == 100
SQLITE_DONE == 101

\* what sqlite3_step can report
StepStatuses == {SQLITE_ROW, SQLITE_DONE, SQLITE_ERROR, SQLITE_BUSY}

\* a native handle that was never acquired
NoConn == [state |-> "none", closes |-> 0]
NoStmt == [state |-> "none", finalizes |-> 0, rc |-> SQLITE_OK]

\* sqlite3_finalize: SQLITE_OK if the most recent evaluation of the statement met
\* no error or the statement was never evaluated, else that evaluation's error code
FinalizeStatus(s) == s.rc

\* sqlite3_close: SQLITE_BUSY, leaving the connection open, while a prepared
\* statement of the connection is not finalized
CloseStatus(s) == IF s.state = "live" THEN SQLITE_BUSY ELSE SQLITE_OK

\* Result<_, _> as the functions return it
Ok(v) == [kind |-> "Ok", value |-> Some(v), error |-> ""]
Err(e) == [kind |-> "Err", value |-> None, error |-> e]
Unit == "()"

-----------------------------------------------------------------------------
(* ffi/statement.rs *)

\* Statement::step
Step(status) ==
    IF status = SQLITE_ROW THEN Ok(TRUE)
    ELSE IF status = SQLITE_DONE THEN Ok(FALSE)
    ELSE Err("StepError")

\* a byte that makes the declared type text invalid UTF-8
BadByte == "0xFF"

\* CStr::to_str
ToStr(bytes) ==
    IF \E i \in DOMAIN bytes : bytes[i] = BadByte THEN Err("Utf8Error") ELSE Ok(bytes)

\* what the engine can answer to one column_database_type call: the three origin
\* names (None is a NULL pointer) and, when the catalog is queried, the status
\* of sqlite3_table_column_metadata with its datatype and not_null outputs
OriginNames == {None, Some("name")}
DeclaredTexts == {<<"b","i","g","i","n","t">>, <<"T","E","X","T">>,
                  <<"D","A","T","E">>, <<"b","l","o","b",BadByte>>}
Metadata(db, table, origin, status, datatype, not_null) ==
    [db_name |-> db, table_name |-> table, origin_name |-> origin,
     status |-> status, datatype |-> datatype, not_null |-> not_null]
EngineAnswers ==
    {Metadata(d, t, o, SQLITE_OK, None, 0) :
        d \in OriginNames, t \in OriginNames, o \in OriginNames}
    \cup {Metadata(Some("name"), Some("name"), Some("name"), SQLITE_ERROR, None, 0)}
    \cup {Metadata(Some("name"), Some("name"), Some("name"), SQLITE_OK, dt, nn) :
            dt \in {None} \cup {Some(x) : x \in DeclaredTexts}, nn \in {0, 1}}

\* the outcome of column_database_type; queried records whether
\* sqlite3_table_column_metadata was called
Outcome(r, queried) == [kind |-> r.kind, value |-> r.value, error |-> r.error,
                        queried |-> queried]

\* column_database_type with the not-null flag read the wrong way round
ColumnDatabaseTypeFlippedNullable(a) ==
    IF IsNone(a.db_name) \/ IsNone(a.table_name) \/ IsNone(a.origin_name)
      THEN Outcome(Ok(None), FALSE)
    ELSE IF a.status # SQLITE_OK THEN Outcome(Err("SqliteError"), TRUE)
    ELSE IF IsNone(a.datatype) THEN Outcome(Ok(None), TRUE)
    ELSE LET str == ToStr(Unwrap(a.datatype))
         IN  IF str.kind = "Err" THEN Outcome(str, TRUE)
             ELSE LET datatype == FromStr(Unwrap(str.value))
                  IN  IF ~datatype.ok THEN Outcome(Err("UnknownType"), TRUE)
                      ELSE Outcome(Ok(Some(ColumnType(datatype.datatype,
                                                      SomeBool(a.not_null # 0)))), TRUE)

\* Statement::column_database_type, given the engine's answers a
ColumnDatabaseType(a) ==
    IF IsNone(a.db_name) \/ IsNone(a.table_name) \/ IsNone(a.origin_name)
      THEN Outcome(Ok(None), FALSE)
    ELSE IF a.status # SQLITE_OK THEN Outcome(Err("SqliteError"), TRUE)
    ELSE IF IsNone(a.datatype) THEN Outcome(Ok(None), TRUE)
    ELSE LET str == ToStr(Unwrap(a.datatype))
         IN  IF str.kind = "Err" THEN Outcome(str, TRUE)
             ELSE LET datatype == FromStr(Unwrap(str.value))
                  IN  IF ~datatype.ok THEN Outcome(Err("UnknownType"), TRUE)
                      ELSE Outcome(Ok(Some(ColumnType(datatype.datatype,
                                                      SomeBool(a.not_null = 0)))), TRUE)

\* a statement whose handle is let go without sqlite3_finalize
DropStatementForgotten ==
    /\ pc = "stmt_drop"
    /\ returned' = IF entry = "exec" THEN Some(Unwrap(result)) ELSE returned
    /\ pc' = IF entry = "load_all" THEN "load_match" ELSE "conn_drop"
    /\ UNCHANGED <<handleVars, entry, result, panicked, execVars, infoVars>>

\* impl Drop for Statement: sqlite3_finalize, and panic! on a status other than
\* SQLITE_OK.  The panic unwinds into the caller, whose locals are dropped.
DropStatement ==
    /\ pc = "stmt_drop"
    /\ stmt' = [stmt EXCEPT !.state = "finalized", !.finalizes = @ + 1]
    /\ IF FinalizeStatus(stmt) # SQLITE_OK
         THEN /\ panicked' = TRUE
              /\ pc' = "conn_drop"
              /\ UNCHANGED returned
         ELSE /\ UNCHANGED panicked
              /\ pc' = IF entry = "load_all" THEN "load_match" ELSE "conn_drop"
              /\ returned' = IF entry = "exec" THEN Some(Unwrap(result)) ELSE returned
    /\ UNCHANGED <<conn, entry, result, execVars, infoVars>>

-----------------------------------------------------------------------------
(* ffi/connection.rs *)

\* Connection::establish: sqlite3_open, an error on a null handle
Establish(e) ==
    /\ pc = "start"
    /\ entry' = e
    /\ \E handle_null \in BOOLEAN :
          IF handle_null
            THEN /\ result' = Some(Err("ConnectionError"))
                 /\ returned' = IF e = "info" THEN Some(Err("ConnectionError")) ELSE returned
                 /\ pc' = "done"
                 /\ UNCHANGED conn
            ELSE /\ conn' = [conn EXCEPT !.state = "open"]
                 /\ pc' = IF e = "exec" THEN "exec_call"
                          ELSE IF e = "load_all" THEN "load_call" ELSE "info_sql"
                 /\ UNCHANGED <<result, returned>>
    /\ UNCHANGED <<stmt, panicked, execVars, infoVars>>

\* Connection::prepare: sqlite3_prepare_v2, an error on a null handle or a
\* status other than SQLITE_OK; the engine hands out no statement on an error
Prepare(ok) ==
    IF ok THEN Ok([stmt EXCEPT !.state = "live"]) ELSE Err("PrepareError")

\* Connection::exec, entered with or without a visitor: let mut stmt = self.prepare(query)?
ExecPrepare ==
    /\ pc = "exec_call"
    /\ \E visitor \in (IF entry = "load_all" THEN {TRUE} ELSE BOOLEAN) : f' = visitor
    /\ \E ok \in BOOLEAN :
          LET p == Prepare(ok)
          IN  IF p.kind = "Err"
                THEN /\ result' = Some(Err(p.error))
                     /\ returned' = IF entry = "exec" THEN Some(Err(p.error)) ELSE returned
                     /\ pc' = IF entry = "load_all" THEN "load_match" ELSE "conn_drop"
                     /\ UNCHANGED stmt
                ELSE /\ stmt' = Unwrap(p.value)
                     /\ pc' = "exec_loop"
                     /\ UNCHANGED <<result, returned>>
    /\ cont' = TRUE
    /\ UNCHANGED <<conn, entry, panicked, steps, produced, last_status, visited, infoVars>>

\* a loop that does not look at cont
StepsAgainAlways == TRUE

\* while cont && ..: the left operand of the loop condition
StepsAgain == cont

\* the loop is left because the visitor returned false: Ok(())
ExecStop ==
    /\ pc = "exec_loop"
    /\ ~StepsAgain
    /\ result' = Some(Ok(Unit))
    /\ pc' = "stmt_drop"
    /\ UNCHANGED <<handleVars, entry, returned, panicked, execVars, infoVars>>

\* while cont && stmt.step()?: one sqlite3_step
ExecStep ==
    /\ pc = "exec_loop"
    /\ StepsAgain
    /\ \E status \in StepStatuses :
          /\ status = SQLITE_ROW => produced < MaxRows
          /\ steps' = steps + 1
          /\ last_status' = status
          /\ LET r == Step(status)
             IN  IF r.kind = "Err"
                   THEN /\ stmt' = [stmt EXCEPT !.rc = status]
                        /\ result' = Some(Err(r.error))
                        /\ pc' = "stmt_drop"
                        /\ UNCHANGED produced
                   ELSE IF Unwrap(r.value)
                     THEN /\ produced' = produced + 1
                          /\ pc' = IF f THEN "exec_visit" ELSE "exec_loop"
                          /\ UNCHANGED <<stmt, result>>
                     ELSE /\ result' = Some(Ok(Unit))
                          /\ pc' = "stmt_drop"
                          /\ UNCHANGED <<stmt, produced>>
    /\ UNCHANGED <<conn, entry, returned, panicked, f, cont, visited, infoVars>>

\* cont = f(&Row::new(&stmt)): the visitor sees the current row and answers
ExecVisit ==
    /\ pc = "exec_visit"
    /\ entry = "exec"
    /\ visited' = Append(visited, produced)
    /\ \E answer \in BOOLEAN : cont' = answer
    /\ pc' = "exec_loop"
    /\ UNCHANGED <<handleVars, entry, result, returned, panicked, f, steps, produced,
                   last_status, infoVars>>

\* what the row function of load_all can answer on row k: a value read off the
\* row, or an error of the caller's type E
RowValue(k) == <<"value", k>>
RowError(k) == <<"f failed", k>>
RowAnswers(k) == {Ok(RowValue(k)), Err(RowError(k))}

\* E: From<SqliteError>, the conversion `?` applies to the error of exec
FromSqliteError(e) == <<"From", e>>

\* load_all: let mut result = Vec::new(); let mut error = None; self.exec(query, Some(..))
LoadAllCall ==
    /\ pc = "load_call"
    /\ collected' = << >>
    /\ error' = None
    /\ pc' = "exec_call"
    /\ UNCHANGED <<handleVars, entry, result, returned, panicked, execVars, infoVars>>

\* the closure load_all hands to exec, applied to the answer of f:
\* Ok(value) => { result.push(value); true }, Err(e) => { error = Some(e); false }
LoadAllClosure(answer) ==
    IF answer.kind = "Ok"
      THEN [collected |-> Append(collected, Unwrap(answer.value)), error |-> error,
            cont |-> TRUE]
      ELSE [collected |-> collected, error |-> Some(answer.error), cont |-> FALSE]

\* cont = f(&Row::new(&stmt)) with the closure of load_all as the visitor
LoadAllVisit ==
    /\ pc = "exec_visit"
    /\ entry = "load_all"
    /\ visited' = Append(visited, produced)
    /\ \E answer \in RowAnswers(produced) :
          LET c == LoadAllClosure(answer)
          IN  /\ collected' = c.collected
              /\ error' = c.error
              /\ cont' = c.cont
    /\ pc' = "exec_loop"
    /\ UNCHANGED <<handleVars, entry, result, returned, panicked, f, steps, produced,
                   last_status, infoVars>>

\* self.exec(..)?; match error { Some(e) => Err(e), None => Ok(result) }
LoadAllMatch ==
    /\ pc = "load_match"
    /\ returned' = IF Unwrap(result).kind = "Err"
                     THEN Some(Err(FromSqliteError(Unwrap(result).error)))
                   ELSE IF IsSome(error) THEN Some(Err(Unwrap(error)))
                   ELSE Some(Ok(collected))
    /\ pc' = "conn_drop"
    /\ UNCHANGED <<handleVars, entry, result, panicked, execVars, infoVars, loadVars>>

\* impl Drop for Connection: sqlite3_close, and panic! on a status other than
\* SQLITE_OK.  get_statement_info hands its result over once its locals are gone.
DropConnection ==
    /\ pc = "conn_drop"
    /\ LET ret == CloseStatus(stmt)
       IN  /\ conn' = [state |-> IF ret = SQLITE_OK THEN "closed" ELSE conn.state,
                       closes |-> conn.closes + 1]
           /\ panicked' = (panicked \/ ret # SQLITE_OK)
           /\ returned' = IF entry = "info" /\ ~panicked /\ ret = SQLITE_OK
                            THEN Some(Unwrap(result)) ELSE returned
    /\ pc' = "done"
    /\ UNCHANGED <<stmt, entry, result, execVars, infoVars>>

-----------------------------------------------------------------------------
(* explain::explain, the fallback resolver.  lib.rs reads its result as a    *)
(* sequence of ColumnType indexed by column position (.get(i).cloned()); it *)
(* fails only when its own introspection query fails.                       *)

ExplainEntries == {ColumnType("Int", NullableNone), ColumnType("Null", SomeBool(TRUE))}

RECURSIVE SeqsUpTo(_, _)
SeqsUpTo(S, n) ==
    IF n = 0 THEN {<< >>}
    ELSE LET shorter == SeqsUpTo(S, n - 1)
         IN  shorter \cup {Append(q, x) : q \in {t \in shorter : Len(t) = n - 1}, x \in S}

Explain(n) == {Err("ExplainError")} \cup {Ok(q) : q \in SeqsUpTo(ExplainEntries, n)}

-----------------------------------------------------------------------------
(* lib.rs: get_statement_info *)

\* struct StatementInfo
StatementInfo(ro, in_len, out_len, out_types) ==
    [read_only |-> ro, input_length |-> in_len, output_length |-> out_len,
     output_types |-> out_types]

\* CString::from_vec_with_nul: the sql text must hold no interior NUL
InfoSql ==
    /\ pc = "info_sql"
    /\ \E interior_nul \in BOOLEAN :
          IF interior_nul
            THEN /\ result' = Some(Err("FromVecWithNulError"))
                 /\ pc' = "conn_drop"
            ELSE /\ pc' = "info_prepare"
                 /\ UNCHANGED result
    /\ UNCHANGED <<handleVars, entry, returned, panicked, execVars, infoVars>>

\* let stmt = conn.prepare(&sql_c)?; then read_only, bind_parameter_count and
\* column_count are read off the statement
InfoPrepare ==
    /\ pc = "info_prepare"
    /\ \E ok \in BOOLEAN :
          LET p == Prepare(ok)
          IN  IF p.kind = "Err"
                THEN /\ result' = Some(Err(p.error))
                     /\ pc' = "conn_drop"
                     /\ UNCHANGED <<stmt, read_only, parameter_count, column_count>>
                ELSE /\ stmt' = Unwrap(p.value)
                     /\ read_only' \in BOOLEAN
                     /\ parameter_count' \in 0..MaxParams
                     /\ column_count' \in 0..MaxCols
                     /\ pc' = "info_t1"
                     /\ UNCHANGED result
    /\ has_undecided_datatype' = FALSE
    /\ UNCHANGED <<conn, entry, returned, panicked, execVars, column_types, lookups,
                   explain_calls, explain_column_types>>

\* the closure of t1 with the flag set on every column
UndecidedAfterAlways(flag, column_type) == TRUE

\* the closure of t1: if column_type.is_none() { has_undecided_datatype = true }
UndecidedAfter(flag, column_type) == flag \/ IsNone(column_type)

\* t1, one column: stmt.column_database_type(i)?, collected into the Vec; the
\* first error ends the collection and the function
InfoSchemaLookup ==
    /\ pc = "info_t1"
    /\ Len(column_types) < column_count
    /\ \E a \in EngineAnswers :
          LET i == Len(column_types)
              column_type == ColumnDatabaseType(a)
          IN  /\ lookups' = Append(lookups, [index |-> i, answers |-> a,
                                             outcome |-> column_type])
              /\ IF column_type.kind = "Err"
                   THEN /\ result' = Some(Err(column_type.error))
                        /\ pc' = "stmt_drop"
                        /\ UNCHANGED <<column_types, has_undecided_datatype>>
                   ELSE /\ column_types' = Append(column_types, Unwrap(column_type.value))
                        /\ has_undecided_datatype' =
                              UndecidedAfter(has_undecided_datatype,
                                             Unwrap(column_type.value))
                        /\ UNCHANGED <<result, pc>>
    /\ UNCHANGED <<handleVars, entry, returned, panicked, execVars, read_only,
                   parameter_count, column_count, explain_calls, explain_column_types>>

\* a merge that overwrites the columns the schema resolved
MergeOverwriting(types, explained) ==
    [i \in DOMAIN types |->
        IF i <= Len(explained) THEN Some(explained[i]) ELSE types[i]]

\* t2: for (i, column_type) in column_types.iter_mut().enumerate() {
\*       if column_type.is_none() { *column_type = explain_column_types.get(i).cloned() } }
Merge(types, explained) ==
    [i \in DOMAIN types |->
        IF IsNone(types[i])
          THEN (IF i <= Len(explained) THEN Some(explained[i]) ELSE None)
          ELSE types[i]]

\* every column was looked up and none is undecided: Ok(StatementInfo { .. })
InfoDecided ==
    /\ pc = "info_t1"
    /\ Len(column_types) = column_count
    /\ ~has_undecided_datatype
    /\ result' = Some(Ok(StatementInfo(read_only, parameter_count, column_count,
                                       column_types)))
    /\ pc' = "stmt_drop"
    /\ UNCHANGED <<handleVars, entry, returned, panicked, execVars, infoVars>>

\* if has_undecided_datatype: explain::explain(&conn, sql)?, the merge and
\* Ok(StatementInfo { .. })
InfoExplain ==
    /\ pc = "info_t1"
    /\ Len(column_types) = column_count
    /\ has_undecided_datatype
    /\ explain_calls' = explain_calls + 1
    /\ \E e \in Explain(column_count + 1) :
          /\ explain_column_types' = Some(e)
          /\ IF e.kind = "Err"
               THEN /\ result' = Some(Err(e.error))
                    /\ UNCHANGED column_types
               ELSE /\ column_types' = Merge(column_types, Unwrap(e.value))
                    /\ result' = Some(Ok(StatementInfo(read_only, parameter_count,
                                                       column_count, column_types')))
    /\ pc' = "stmt_drop"
    /\ UNCHANGED <<handleVars, entry, returned, panicked, execVars, read_only,
                   parameter_count, column_count, has_undecided_datatype, lookups>>

-----------------------------------------------------------------------------
(* Specifications *)

ParseIdle == text = << >> /\ variant = << >> /\ parsed = None /\ parsedVariant = None
TagIdle == type_code = 0 /\ tag_result = None
ProgIdle ==
    /\ pc = "start"
    /\ entry = "none"
    /\ conn = NoConn
    /\ stmt = NoStmt
    /\ f = FALSE
    /\ cont = TRUE
    /\ steps = 0
    /\ produced = 0
    /\ last_status = SQLITE_OK
    /\ visited = << >>
    /\ read_only = FALSE
    /\ parameter_count = 0
    /\ column_count = 0
    /\ has_undecided_datatype = FALSE
    /\ column_types = << >>
    /\ lookups = << >>
    /\ explain_calls = 0
    /\ explain_column_types = None
    /\ result = None
    /\ returned = None
    /\ panicked = FALSE
    /\ collected = << >>
    /\ error = None

\* a caller that opens a connection, calls exec on it and lets it go
CallExec == Establish("exec")

\* a caller that opens a connection, calls load_all on it and lets it go
CallLoadAll == Establish("load_all")

\* get_statement_info: let conn = Connection::establish(db_path)?
CallGetStatementInfo == Establish("info")

Init == ParseIdle /\ TagIdle /\ ProgIdle

Next ==
    \/ (CallExec /\ UNCHANGED <<parseVars, tagVars, loadVars>>)
    \/ (CallGetStatementInfo /\ UNCHANGED <<parseVars, tagVars, loadVars>>)
    \/ (ExecPrepare /\ UNCHANGED <<parseVars, tagVars, loadVars>>)
    \/ (ExecStep /\ UNCHANGED <<parseVars, tagVars, loadVars>>)
    \/ (ExecVisit /\ UNCHANGED <<parseVars, tagVars, loadVars>>)
    \/ (ExecStop /\ UNCHANGED <<parseVars, tagVars, loadVars>>)
    \/ (InfoSql /\ UNCHANGED <<parseVars, tagVars, loadVars>>)
    \/ (InfoPrepare /\ UNCHANGED <<parseVars, tagVars, loadVars>>)
    \/ (InfoSchemaLookup /\ UNCHANGED <<parseVars, tagVars, loadVars>>)
    \/ (InfoDecided /\ UNCHANGED <<parseVars, tagVars, loadVars>>)
    \/ (InfoExplain /\ UNCHANGED <<parseVars, tagVars, loadVars>>)
    \/ (DropStatement /\ UNCHANGED <<parseVars, tagVars, loadVars>>)
    \/ (DropConnection /\ UNCHANGED <<parseVars, tagVars, loadVars>>)
    \/ (CallLoadAll /\ UNCHANGED <<parseVars, tagVars, loadVars>>)
    \/ (LoadAllCall /\ UNCHANGED <<parseVars, tagVars>>)
    \/ (LoadAllVisit /\ UNCHANGED <<parseVars, tagVars>>)
    \/ (LoadAllMatch /\ UNCHANGED <<parseVars, tagVars>>)

Spec == Init /\ [][Next]_vars

InitP == InitParse /\ TagIdle /\ ProgIdle
NextP == Parse /\ UNCHANGED <<tagVars, progVars>>
SpecParse == InitP /\ [][NextP]_vars

InitT == ParseIdle /\ InitTag /\ ProgIdle
NextT == ColumnTypeOfTag /\ UNCHANGED <<parseVars, progVars>>
SpecTag == InitT /\ [][NextT]_vars

TypeOK ==
    /\ pc \in {"start", "exec_call", "exec_loop", "exec_visit", "info_sql",
               "info_prepare", "info_t1", "stmt_drop", "conn_drop", "done",
               "load_call", "load_match"}
    /\ conn.state \in {"none", "open", "closed"}
    /\ stmt.state \in {"none", "live", "finalized"}
    /\ Len(column_types) <= column_count

-----------------------------------------------------------------------------
(* Properties *)

\* the call has ended and this is what the caller holds
Finished == pc = "done"
InfoReturnedOk == entry = "info" /\ IsSome(returned) /\ Unwrap(returned).kind = "Ok"
SchemaType(k) == Unwrap(lookups[k].outcome.value)

\* C1: a successful get_statement_info reports exactly column_count output
\* types; a column the schema lookup resolved keeps that type through the
\* fallback stage, and an unresolved column takes the fallback's entry at its
\* index, or None when the fallback's sequence has no such entry.
C1_OutputTypesMerged ==
    InfoReturnedOk =>
        LET info == Unwrap(Unwrap(returned).value)
            out == info.output_types
        IN  /\ Len(out) = info.output_length
            /\ info.output_length = column_count
            /\ Len(lookups) = column_count
            /\ \A k \in 1..column_count :
                  IF IsSome(SchemaType(k))
                    THEN out[k] = SchemaType(k)
                    ELSE /\ IsSome(explain_column_types)
                         /\ LET explained == Unwrap(Unwrap(explain_column_types).value)
                            IN  out[k] = IF k <= Len(explained)
                                           THEN Some(explained[k]) ELSE None

C1_Witness ==
    /\ InfoReturnedOk
    /\ column_count = 2
    /\ IsSome(SchemaType(1))
    /\ IsNone(SchemaType(2))
    /\ IsSome(Unwrap(Unwrap(returned).value).output_types[2])

\* C2: when a step inside exec reports a status that is neither row nor done,
\* exec hands a StepError to its caller without a panic, and the visitor is
\* not invoked for that step or later.
C2_StepErrorReturned ==
    (entry = "exec" /\ Finished /\ steps > 0
       /\ last_status \notin {SQLITE_ROW, SQLITE_DONE}) =>
        /\ ~panicked
        /\ returned = Some(Err("StepError"))
        /\ Len(visited) = (IF f THEN produced ELSE 0)

\* C3: the visitor is invoked once per produced row, in production order,
\* until it first answers stop; after a stop the statement is not stepped
\* again and exec returns Ok; without a stop, a call that ends without an
\* engine error has stepped the statement to done.
C3_VisitorProtocol ==
    entry = "exec" =>
        /\ visited = [k \in 1..Len(visited) |-> k]
        /\ Len(visited) = (IF ~f THEN 0
                           ELSE IF pc = "exec_visit" THEN produced - 1 ELSE produced)
        /\ ~cont =>
              /\ f
              /\ steps = Len(visited)
              /\ last_status = SQLITE_ROW
              /\ pc # "exec_loop" => Unwrap(result).kind = "Ok"
              /\ Finished => (~panicked /\ returned = Some(Ok(Unit)))
        /\ (cont /\ IsSome(returned) /\ Unwrap(returned).kind = "Ok") =>
              /\ last_status = SQLITE_DONE
              /\ steps = produced + 1

C3_Witness ==
    /\ entry = "exec"
    /\ Finished
    /\ ~cont
    /\ visited = <<1, 2>>
    /\ returned = Some(Ok(Unit))

\* C4: on every way out of exec and get_statement_info each native handle that
\* was acquired is released exactly once, and no statement is live once its
\* connection has been closed.
C4_HandlesReleasedOnce ==
    /\ conn.closes <= 1
    /\ stmt.finalizes <= 1
    /\ stmt.state = "finalized" <=> stmt.finalizes = 1
    /\ conn.state = "closed" => (conn.closes = 1 /\ stmt.state # "live")
    /\ Finished =>
          /\ conn.state \in {"none", "closed"}
          /\ stmt.state \in {"none", "finalized"}
          /\ conn.state = "none" => stmt.state = "none"

C4_Witness ==
    /\ Finished
    /\ entry = "info"
    /\ returned = Some(Err("SqliteError"))
    /\ conn = [state |-> "closed", closes |-> 1]
    /\ stmt.state = "finalized"
    /\ stmt.finalizes = 1

OriginAvailable(a) == IsSome(a.db_name) /\ IsSome(a.table_name) /\ IsSome(a.origin_name)
Resolved(a) ==
    Ok(Some(ColumnType(FromStr(Unwrap(a.datatype)).datatype, SomeBool(a.not_null = 0))))

\* C5 as stated: column_database_type has exactly three outcome classes:
\* Ok(None) without a catalog query when an origin name is missing; an error
\* when the catalog query fails; and, when it succeeds, Ok(None) for an absent
\* declared type and otherwise Ok(Some(parsed type, Some(not_null == 0))).
C5_ThreeOutcomes ==
    \A k \in DOMAIN lookups :
        LET a == lookups[k].answers
            o == lookups[k].outcome
        IN  IF ~OriginAvailable(a) THEN o = Outcome(Ok(None), FALSE)
            ELSE IF a.status # SQLITE_OK THEN o.kind = "Err" /\ o.queried
            ELSE IF IsNone(a.datatype) THEN o = Outcome(Ok(None), TRUE)
            ELSE o = Outcome(Resolved(a), TRUE)

\* C5 amended: as above, except that a declared type text that is present but
\* is not valid UTF-8 or is not recognized by from_str makes the call an error.
C5_FourOutcomes ==
    \A k \in DOMAIN lookups :
        LET a == lookups[k].answers
            o == lookups[k].outcome
        IN  IF ~OriginAvailable(a) THEN o = Outcome(Ok(None), FALSE)
            ELSE IF a.status # SQLITE_OK THEN o.kind = "Err" /\ o.queried
            ELSE IF IsNone(a.datatype) THEN o = Outcome(Ok(None), TRUE)
            ELSE IF \/ ToStr(Unwrap(a.datatype)).kind = "Err"
                    \/ ~FromStr(Unwrap(a.datatype)).ok
              THEN o.kind = "Err" /\ o.queried
            ELSE o = Outcome(Resolved(a), TRUE)

C5_Witness ==
    /\ Len(lookups) = 2
    /\ lookups[1].answers.not_null = 1
    /\ lookups[1].outcome.value = Some(Some(ColumnType("BigInt", SomeBool(FALSE))))
    /\ lookups[2].answers.not_null = 0
    /\ lookups[2].outcome.value = Some(Some(ColumnType("BigInt", SomeBool(TRUE))))

IsLowerText(s) == \A i \in DOMAIN s : ~IsUpperChar(s[i])

\* the priority list of the claim, on a lower-case text; None when no rule applies
FirstRule(l) ==
    IF l = P_int4 THEN Some("Int")
    ELSE IF l = P_int8 THEN Some("BigInt")
    ELSE IF l = P_boolean \/ l = P_bool THEN Some("Bool")
    ELSE IF Contains(l, P_int) /\ Contains(l, P_big) THEN Some("BigInt")
    ELSE IF Contains(l, P_int) THEN Some("Int")
    ELSE IF Contains(l, P_char) \/ Contains(l, P_clob) \/ Contains(l, P_text)
      THEN Some("Text")
    ELSE IF Contains(l, P_blob) THEN Some("Blob")
    ELSE IF Contains(l, P_real) \/ Contains(l, P_floa) \/ Contains(l, P_doub)
      THEN Some("Real")
    ELSE None

\* C6: from_str gives the same answer on every ASCII case variant of a text,
\* and that answer is the first matching rule of the priority list:
\* int4, int8, boolean/bool exactly, then the substrings int (with big),
\* char/clob/text, blob, real/floa/doub.
C6_CaseInsensitivePriority ==
    IsSome(parsed) =>
        LET r == Unwrap(parsed)
            v == Unwrap(parsedVariant)
        IN  /\ r.ok = v.ok
            /\ r.datatype = v.datatype
            /\ (IsLowerText(text) /\ IsSome(FirstRule(text))) =>
                  (r.ok /\ r.datatype = Unwrap(FirstRule(text)))

C6_Witness ==
    /\ IsSome(parsed)
    /\ text = <<"I","N","T","8">>
    /\ variant = P_int8
    /\ Unwrap(parsed).datatype = "BigInt"

\* C7: on a text that matches no rule from_str fails, and the failure carries
\* the text exactly as it was given, letter case included.
C7_ErrorCarriesOriginalText ==
    (IsSome(parsed) /\ IsNone(FirstRule(ToAsciiLowercase(text)))) =>
        /\ ~Unwrap(parsed).ok
        /\ Unwrap(parsed).unknown = text

\* C8: from_type_code is total: the integer, float, text and blob tags map to
\* Int, Real, Text and Blob with nullable Some(false); every other tag maps to
\* Null with nullable Some(true); Bool and BigInt are never produced.
C8_TagMapping ==
    IsSome(tag_result) =>
        LET r == Unwrap(tag_result)
        IN  /\ type_code = SQLITE_INTEGER => r = ColumnType("Int", SomeBool(FALSE))
            /\ type_code = SQLITE_FLOAT => r = ColumnType("Real", SomeBool(FALSE))
            /\ type_code = SQLITE_TEXT => r = ColumnType("Text", SomeBool(FALSE))
            /\ type_code = SQLITE_BLOB => r = ColumnType("Blob", SomeBool(FALSE))
            /\ type_code \notin {SQLITE_INTEGER, SQLITE_FLOAT, SQLITE_TEXT, SQLITE_BLOB}
                  => r = ColumnType("Null", SomeBool(TRUE))
            /\ r.datatype \in DataType \ {"Bool", "BigInt"}

C8_Witness ==
    /\ type_code = SQLITE_NULL
    /\ tag_result = Some(ColumnType("Null", SomeBool(TRUE)))

\* C9 as stated: a ColumnType derived only from a runtime type tag has
\* nullable = None.
C9_TagNullableUnknown ==
    IsSome(tag_result) => Unwrap(tag_result).nullable = NullableNone

\* C9 amended: a ColumnType derived only from a runtime type tag never has
\* nullable = None: it is Some(true) exactly when the datatype is Null and
\* Some(false) otherwise.
C9_TagNullableKnown ==
    IsSome(tag_result) =>
        LET r == Unwrap(tag_result)
        IN  /\ r.nullable # NullableNone
            /\ r.nullable = SomeBool(r.datatype = "Null")

C9_Witness ==
    /\ type_code = SQLITE_INTEGER
    /\ IsSome(tag_result)
    /\ Unwrap(tag_result).nullable = SomeBool(FALSE)

AllLookedUp ==
    /\ Len(lookups) = column_count
    /\ \A k \in DOMAIN lookups : lookups[k].outcome.kind = "Ok"
SomeUndecided == \E k \in DOMAIN lookups : lookups[k].outcome = Outcome(Ok(None), TRUE)
                                       \/ lookups[k].outcome = Outcome(Ok(None), FALSE)

\* C10: in one get_statement_info call explain is invoked at most once and only
\* after the schema lookup was attempted for every column index in increasing
\* order; exactly once when every lookup succeeded and one returned None; never
\* when every column resolved, nor after a lookup error, which the call returns
\* in place of a StatementInfo.
C10_ExplainOnce ==
    entry = "info" =>
        /\ explain_calls <= 1
        /\ \A k \in DOMAIN lookups : lookups[k].index = k - 1
        /\ explain_calls = 1 => (AllLookedUp /\ SomeUndecided)
        /\ (AllLookedUp /\ pc \in {"stmt_drop", "conn_drop", "done"}
              /\ stmt.state # "none") =>
              (explain_calls = 1 <=> SomeUndecided)
        /\ \A k \in DOMAIN lookups :
              lookups[k].outcome.kind = "Err" =>
                  /\ k = Len(lookups)
                  /\ explain_calls = 0
                  /\ result = Some(Err(lookups[k].outcome.error))
                  /\ Finished => returned = result

C10_Witness ==
    /\ entry = "info"
    /\ Finished
    /\ column_count = 2
    /\ explain_calls = 1
    /\ IsSome(SchemaType(1))
    /\ IsNone(SchemaType(2))

ReturnedErr(e) ==
    IsSome(returned) /\ Unwrap(returned).kind = "Err" /\ Unwrap(returned).error = e
ReturnedOk(v) ==
    IsSome(returned) /\ Unwrap(returned).kind = "Ok" /\ Unwrap(Unwrap(returned).value) = v

\* C11: load_all returns Ok with one element per produced row, in row order,
\* when f succeeds on every row and the engine reports no error; when f fails
\* on a row, f is called on no later row, the statement is not stepped again
\* and load_all returns that error of f; when prepare or a step fails before
\* any failure of f, load_all returns the engine error converted into E.
C11_LoadAll ==
    (entry = "load_all" /\ Finished /\ conn.state # "none") =>
        /\ visited = [k \in 1..Len(visited) |-> k]
        /\ IF IsSome(error)
             THEN /\ Unwrap(error) = RowError(Len(visited))
                  /\ steps = Len(visited)
                  /\ ReturnedErr(Unwrap(error))
           ELSE IF Unwrap(result).kind = "Err"
             THEN ReturnedErr(FromSqliteError(Unwrap(result).error))
           ELSE ReturnedOk([k \in 1..produced |-> RowValue(k)])

====
